---- MODULE Spec2Model ----
(***************************************************************************)
(* FSST string decompression: fsst_decoder_t and fsst_decompress of        *)
(* cpp/src/mlt/decode/fsst/fsst.h.                                         *)
(*                                                                         *)
(* One call of fsst_decompress is a state machine: the while loop takes    *)
(* one step per compressed unit (SymbolStep for a code < 255, EscapeStep   *)
(* for the marker 255 and its literal), Return is the statement pair after *)
(* the loop (forced terminator, return posOut).                            *)
(*                                                                         *)
(* Memory is byte addressed.  mem[i] is the byte at address output + i;    *)
(* the caller's buffer is the cells 0 .. size-1, the cells at -1 and at    *)
(* size .. MaxSize are the memory around the buffer.  size_t index         *)
(* arithmetic wraps: strOut[size-1] with size = 0 is the address           *)
(* output + (2^w - 1), which wraps to output - 1, the cell -1 here.        *)
(***************************************************************************)
EXTENDS Integers, Sequences, FiniteSets

VARIABLES
    decoder,   \* the fsst_decoder_t: zeroTerminated, len[255], symbol[255]
    strIn,     \* the compressed string; strIn[posIn] of the code is strIn[posIn+1]
    lenIn,     \* byte-length of the compressed string
    size,      \* byte-length of the output buffer
    mem,       \* memory at and around output: mem[i] is output[i]
    posIn,     \* input cursor
    posOut,    \* output cursor (the logical length so far)
    pc,        \* "loop" while in the while loop, "done" after return
    ret,       \* the returned value (-1 before return)
    orig,      \* ghost: the original string S the encoder compressed into strIn
    writes,    \* ghost: the set of indices i with a store to output[i]
    reads,     \* ghost: the indices of strIn read, in order
    iters      \* ghost: number of iterations of the while loop taken

vars == <<decoder, strIn, lenIn, size, mem, posIn, posOut, pc, ret,
          orig, writes, reads, iters>>

----------------------------------------------------------------------------
(* Bounds of the model. *)

\* longest compressed string explored
MaxLenIn == 4
\* largest output buffer capacity explored
MaxSize == 6

----------------------------------------------------------------------------
(* Constants of the program. *)

FSST_ESC == 255

\* the byte values the explored strings are made of: the terminator 0,
\* the codes 5, 6 and 33 (33 is also '!'), and the escape marker
ByteValues == {0, 5, 6, 33, FSST_ESC}

\* the entries of len[255] and symbol[255] the model keeps: those of the
\* codes 0 <= x < 255 that a byte of the explored strings can index
Codes == {c \in ByteValues : c < FSST_ESC}

\* the addresses around output that the model keeps
MemIdx == (0 - 1) .. MaxSize

\* what the caller's buffer and its surroundings hold before the call: a
\* different value in every cell, none of them a byte any symbol holds
InitByte(i) == 160 + i

Min(a, b) == IF a < b THEN a ELSE b

----------------------------------------------------------------------------
(* unsigned long long: a 64-bit word, kept as four 16-bit limbs, least     *)
(* significant first, so that no arithmetic leaves the integer range.      *)

\* The word the table builder stores for the byte sequence s (at most 8
\* bytes): s[1] is the least significant byte, unused high bytes are 0.
PadByte(s, j) == IF j <= Len(s) THEN s[j] ELSE 0
PackWord(s) == [k \in 1 .. 4 |-> PadByte(s, 2 * k - 1) + 256 * PadByte(s, 2 * k)]

\* Mutant of ObjByte: the bytes of the word taken most significant first.
ObjByteBigEndian(word, j) ==
    LET k == 7 - j
    IN  IF k % 2 = 0 THEN word[(k \div 2) + 1] % 256
                     ELSE (word[(k \div 2) + 1] \div 256) % 256

\* ((unsigned char*) &word)[j], j in 0..7, on the little-endian layout the
\* header fixes: the byte (word >> 8j) & 0xFF.
ObjByte(word, j) ==
    IF j % 2 = 0 THEN word[(j \div 2) + 1] % 256
                 ELSE (word[(j \div 2) + 1] \div 256) % 256

----------------------------------------------------------------------------
(* Decoder tables.  The table builder is not part of this code; a table is *)
(* given by the symbol string of every code.                               *)

TableIds == {1, 2}

\* Table 1: code 5 is "he", code 6 is "llo"; Table 2: code 5 is an 8-byte
\* symbol, code 6 a 4-byte symbol with a 0 byte inside.  Every other code x
\* is the one-byte symbol x (so code 0 is the terminator symbol).
SymStr(t, code) ==
    IF t = 1 /\ code = 5 THEN <<104, 101>>
    ELSE IF t = 1 /\ code = 6 THEN <<108, 108, 111>>
    ELSE IF t = 2 /\ code = 5 THEN <<49, 50, 51, 52, 53, 54, 55, 255>>
    ELSE IF t = 2 /\ code = 6 THEN <<200, 0, 7, 9>>
    ELSE <<code>>

MakeDecoder(t, zt) ==
    [ zeroTerminated |-> zt,
      len            |-> [c \in Codes |-> Len(SymStr(t, c))],
      symbol         |-> [c \in Codes |-> PackWord(SymStr(t, c))] ]

----------------------------------------------------------------------------
(* Compressed strings. *)

\* every escape marker is followed by its literal byte
RECURSIVE WellFormedFrom(_, _)
WellFormedFrom(s, i) ==
    IF i > Len(s) THEN TRUE
    ELSE IF s[i] < FSST_ESC THEN WellFormedFrom(s, i + 1)
    ELSE i + 1 <= Len(s) /\ WellFormedFrom(s, i + 2)

WellFormed(s) == WellFormedFrom(s, 1)

\* The string a matching encoder compressed into s under table t: symbol
\* strings and escaped literals in order (a dangling marker encodes nothing).
RECURSIVE OrigFrom(_, _, _)
OrigFrom(t, s, i) ==
    IF i > Len(s) THEN << >>
    ELSE IF s[i] < FSST_ESC THEN SymStr(t, s[i]) \o OrigFrom(t, s, i + 1)
    ELSE IF i + 1 <= Len(s) THEN <<s[i + 1]>> \o OrigFrom(t, s, i + 2)
    ELSE << >>

Streams == UNION {[1 .. n -> ByteValues] : n \in 0 .. MaxLenIn}

----------------------------------------------------------------------------
(* The statements of fsst_decompress. *)

\* Mutant of LoopCond: the loop runs one byte past the compressed string.
LoopCondInclusive(pi, li) == pi <= li

\* while (posIn < lenIn)
LoopCond(pi, li) == pi < li

\* strIn[i]: the byte read at index i.  An index at or past lenIn is a read
\* outside the compressed string, which yields whatever byte lies there.
InByte(s, li, i) == IF i < li THEN {s[i + 1]} ELSE ByteValues

\* (code = strIn[posIn++]) < FSST_ESC
IsSymbol(code) == code < FSST_ESC

\* Mutant of SymbolPosOut: the cursor stops at the end of the buffer.
SymbolPosOutClamped(po, l, sz) == Min(po + l, sz)

\* posOut = endWrite, with endWrite = posOut + len[code] not yet clamped
SymbolPosOut(po, l, sz) == po + l

\* Mutant of EndWrite: the copy stops one byte short of the buffer's end.
EndWriteShort(po, l, sz) == Min(po + l, sz - 1)

\* endWrite = posOut + len[code]; if (posOut > size) endWrite = size
EndWrite(po, l, sz) == IF po + l > sz THEN sz ELSE po + l

\* for (; posWrite < endWrite; posWrite++) strOut[posWrite] = symbolPointer[posWrite]
\* with symbolPointer = (unsigned char*) &symbol[code] - posWrite
SymbolStore(m, word, po, ew) ==
    [i \in MemIdx |-> IF po <= i /\ i < ew THEN ObjByte(word, i - po) ELSE m[i]]

\* the indices that loop stores to
SymbolStoreIdx(po, ew) == po .. (ew - 1)

\* if (posOut < size)
EscapeRoom(po, sz) == po < sz

\* strOut[posOut] = strIn[posIn]
ByteStore(m, i, b) == [j \in MemIdx |-> IF j = i THEN b ELSE m[j]]

\* Mutant of EscapeLiteralIdx: the marker itself is taken as the literal.
EscapeLiteralIdxMarker(pi) == pi

\* the index of the literal: strIn[posIn] after the posIn++ of the marker's read
EscapeLiteralIdx(pi) == pi + 1

\* Mutant of EscapeAdvance: the literal byte is not skipped.
EscapeAdvanceOne(pi) == pi + 1

\* posIn++ of the read of the marker, posIn++ of the else branch
EscapeAdvance(pi) == pi + 2

\* Mutant of SymbolAdvance: the code is not consumed.
SymbolAdvanceNone(pi) == pi

\* posIn++ of the read of the code
SymbolAdvance(pi) == pi + 1

\* Mutant of ForceTerminator: only a truncated string is terminated.
ForceTerminatorStrict(po, sz, zt) == po > sz /\ zt % 2 = 1

\* Mutant of ForceTerminator: the terminator is stored whenever the mode is on.
ForceTerminatorAlways(po, sz, zt) == zt % 2 = 1

\* if (posOut >= size && (decoder->zeroTerminated & 1))
ForceTerminator(po, sz, zt) == po >= sz /\ zt % 2 = 1

\* the index of strOut[size-1]; for size = 0 the size_t index wraps and the
\* address is the byte before output
TermIndex(sz) == sz - 1

----------------------------------------------------------------------------
(* The call. *)

Init ==
    \E t \in TableIds, zt \in {0, 1}, s \in Streams, sz \in 0 .. MaxSize :
        /\ decoder = MakeDecoder(t, zt)
        /\ strIn = s
        /\ lenIn = Len(s)
        /\ size = sz
        /\ mem = [i \in MemIdx |-> InitByte(i)]
        /\ posIn = 0
        /\ posOut = 0
        /\ pc = "loop"
        /\ ret = 0 - 1
        /\ orig = OrigFrom(t, s, 1)
        /\ writes = {}
        /\ reads = << >>
        /\ iters = 0

\* one iteration of the while loop on a symbol code
SymbolStep ==
    /\ pc = "loop"
    /\ LoopCond(posIn, lenIn)
    /\ \E code \in InByte(strIn, lenIn, posIn) :
        /\ IsSymbol(code)
        /\ LET l  == decoder.len[code]
               ew == EndWrite(posOut, l, size)
           IN  /\ mem' = SymbolStore(mem, decoder.symbol[code], posOut, ew)
               /\ writes' = writes \cup SymbolStoreIdx(posOut, ew)
               /\ posOut' = SymbolPosOut(posOut, l, size)
    /\ reads' = Append(reads, posIn)
    /\ posIn' = SymbolAdvance(posIn)
    /\ iters' = iters + 1
    /\ UNCHANGED <<decoder, strIn, lenIn, size, pc, ret, orig>>

\* one iteration of the while loop on the escape marker
EscapeStep ==
    /\ pc = "loop"
    /\ LoopCond(posIn, lenIn)
    /\ \E code \in InByte(strIn, lenIn, posIn) :
        /\ ~IsSymbol(code)
        /\ \E b \in InByte(strIn, lenIn, EscapeLiteralIdx(posIn)) :
            IF EscapeRoom(posOut, size)
            THEN /\ mem' = ByteStore(mem, posOut, b)
                 /\ writes' = writes \cup {posOut}
                 /\ reads' = Append(Append(reads, posIn), EscapeLiteralIdx(posIn))
            ELSE /\ UNCHANGED <<mem, writes>>
                 /\ reads' = Append(reads, posIn)
    /\ posIn' = EscapeAdvance(posIn)
    /\ posOut' = posOut + 1
    /\ iters' = iters + 1
    /\ UNCHANGED <<decoder, strIn, lenIn, size, pc, ret, orig>>

\* the loop's exit: the forced terminator and return posOut
Return ==
    /\ pc = "loop"
    /\ ~LoopCond(posIn, lenIn)
    /\ IF ForceTerminator(posOut, size, decoder.zeroTerminated)
       THEN /\ mem' = ByteStore(mem, TermIndex(size), 0)
            /\ writes' = writes \cup {TermIndex(size)}
       ELSE UNCHANGED <<mem, writes>>
    /\ ret' = posOut
    /\ pc' = "done"
    /\ UNCHANGED <<decoder, strIn, lenIn, size, posIn, posOut, orig, reads, iters>>

Next == SymbolStep \/ EscapeStep \/ Return

Spec == Init /\ [][Next]_vars

\* the call is one thread of control: a step that can be taken is taken
FairSpec == Spec /\ WF_vars(Next)

----------------------------------------------------------------------------
(* What the properties are stated in. *)

\* the logical length of the string s compresses: the sum of len[code] over
\* the symbol codes plus one per escape unit
RECURSIVE LogicalLenFrom(_, _, _)
LogicalLenFrom(dec, s, i) ==
    IF i > Len(s) THEN 0
    ELSE IF s[i] < FSST_ESC THEN dec.len[s[i]] + LogicalLenFrom(dec, s, i + 1)
    ELSE 1 + LogicalLenFrom(dec, s, i + 2)

LogicalLen == LogicalLenFrom(decoder, strIn, 1)

Returned == pc = "done"
ZeroTerminatedMode == decoder.zeroTerminated % 2 = 1
\* buffer[i], the caller's buffer being output[0 .. size-1]
BufferIdx == 0 .. (size - 1)
HasSymbol == \E i \in 1 .. Len(strIn) : strIn[i] < FSST_ESC /\ decoder.len[strIn[i]] > 1
HasEscape == \E i \in 1 .. Len(strIn) : strIn[i] = FSST_ESC

----------------------------------------------------------------------------
\* C1: for a well-formed compressed string the returned value is the logical
\* length, the sum of len[code] over its symbol codes plus the number of its
\* escape units, whatever size and zeroTerminated are.
C1_ReturnsLogicalLength ==
    (Returned /\ WellFormed(strIn)) => ret = LogicalLen

C1_Witness ==
    /\ Returned /\ WellFormed(strIn) /\ HasSymbol /\ HasEscape
    /\ ZeroTerminatedMode /\ 0 < size /\ size < ret

\* C2: when the capacity is below the logical length L of the original S, the
\* call returns L and buffer[i] = S[i] for every i < size, except that in
\* zero-terminated mode buffer[size-1] may be the forced 0.
C2_TruncatedPrefix ==
    (Returned /\ WellFormed(strIn) /\ size < Len(orig)) =>
        /\ ret = Len(orig)
        /\ \A i \in BufferIdx :
              \/ mem[i] = orig[i + 1]
              \/ ZeroTerminatedMode /\ i = size - 1 /\ mem[i] = 0

C2_Witness ==
    /\ Returned /\ WellFormed(strIn) /\ HasSymbol /\ HasEscape
    /\ 2 <= size /\ size < Len(orig)
    /\ ~ZeroTerminatedMode /\ mem[size - 1] = orig[size]

\* C3: every store into the output buffer is at an index in [0, size).
C3_WritesInBounds ==
    \A i \in writes : 0 <= i /\ i < size

\* C4 as claimed: in zero-terminated mode, for every capacity size <= L,
\* size - 1 is a position of the buffer and the byte there is 0 on return.
C4_TerminatorForEveryCapacity ==
    (Returned /\ WellFormed(strIn) /\ ZeroTerminatedMode /\ size <= Len(orig)) =>
        (size - 1 \in BufferIdx /\ mem[size - 1] = 0)

\* C4 amended: in zero-terminated mode, for every capacity 1 <= size <= L,
\* buffer[size-1] is 0 on return, whatever the expansion had stored there.
C4_TerminatorAtLastByte ==
    (Returned /\ WellFormed(strIn) /\ ZeroTerminatedMode
        /\ 1 <= size /\ size <= Len(orig)) => mem[size - 1] = 0

C4_Witness ==
    /\ Returned /\ WellFormed(strIn) /\ ZeroTerminatedMode
    /\ 1 <= size /\ size = Len(orig) /\ orig[size] # 0 /\ mem[size - 1] = 0

\* C5 as claimed: with capacity exactly len(S) the call returns len(S) and the
\* buffer equals S byte for byte, for any table.
C5_ExactCapacityEqualsOriginal ==
    (Returned /\ WellFormed(strIn) /\ size = Len(orig)) =>
        /\ ret = Len(orig)
        /\ \A i \in BufferIdx : mem[i] = orig[i + 1]

\* C5 amended: with capacity exactly len(S) the call returns len(S) and the
\* buffer equals S byte for byte, except that in zero-terminated mode the
\* last byte buffer[len(S)-1] is 0.
C5_ExactCapacity ==
    (Returned /\ WellFormed(strIn) /\ size = Len(orig)) =>
        /\ ret = Len(orig)
        /\ \A i \in BufferIdx :
              mem[i] = IF ZeroTerminatedMode /\ i = size - 1 THEN 0 ELSE orig[i + 1]

\* the example: 5 is "he", 6 is "llo", [5, 6, 255, 33] into 6 bytes is "hello!"
C5_Witness ==
    /\ Returned /\ strIn = <<5, 6, 255, 33>> /\ size = 6 /\ ret = 6
    /\ decoder.len[5] = 2 /\ decoder.len[6] = 3
    /\ [i \in 1 .. 6 |-> mem[i - 1]] = <<104, 101, 108, 108, 111, 33>>

\* C6 as claimed: [255, b] into a buffer of capacity >= 1 returns 1 and leaves
\* buffer[0] = b, for any table.
C6_EscapeByteForAnyTable ==
    (Returned /\ lenIn = 2 /\ strIn[1] = FSST_ESC /\ size >= 1) =>
        (ret = 1 /\ mem[0] = strIn[2])

\* C6 amended: [255, b] into a buffer of capacity >= 1 returns 1 and leaves
\* buffer[0] = b, except that in zero-terminated mode with capacity exactly 1
\* buffer[0] is the forced 0.
C6_EscapeFidelity ==
    (Returned /\ lenIn = 2 /\ strIn[1] = FSST_ESC /\ size >= 1) =>
        /\ ret = 1
        /\ mem[0] = IF ZeroTerminatedMode /\ size = 1 THEN 0 ELSE strIn[2]

C6_Witness ==
    /\ Returned /\ strIn = <<FSST_ESC, FSST_ESC>> /\ size >= 2
    /\ ZeroTerminatedMode /\ ret = 1 /\ mem[0] = FSST_ESC

\* C7: on a zero-length compressed string the call returns 0 and stores
\* nothing: the buffer and the memory around it are as before the call.
C7_EmptyInputWritesNothing ==
    (Returned /\ lenIn = 0) =>
        (ret = 0 /\ writes = {} /\ \A i \in MemIdx : mem[i] = InitByte(i))

\* C8: posIn and posOut never decrease from one step to the next; for a
\* well-formed compressed string every read is at an index < lenIn, no index
\* is read twice, and the loop ends with posIn = lenIn.
C8_CursorsForwardOnly ==
    /\ [][posIn' >= posIn /\ posOut' >= posOut]_vars
    /\ [](WellFormed(strIn) =>
            /\ \A k \in 1 .. Len(reads) : 0 <= reads[k] /\ reads[k] < lenIn
            /\ \A j, k \in 1 .. Len(reads) : j # k => reads[j] # reads[k]
            /\ (Returned => posIn = lenIn))

C8_Witness ==
    /\ Returned /\ WellFormed(strIn) /\ HasSymbol /\ HasEscape
    /\ posIn = lenIn /\ lenIn >= 3 /\ Len(reads) = lenIn /\ posOut > size

\* C9: the call completes for every compressed string, a dangling escape
\* marker included, and the loop takes at most lenIn iterations.
C9_Terminates ==
    /\ [](iters <= lenIn)
    /\ <>Returned

C9_Witness ==
    /\ Returned /\ ~WellFormed(strIn) /\ posIn = lenIn + 1 /\ iters >= 2

\* C10: when the logical length L is below the capacity, no byte at an index
\* in [L, size) is stored to (so no forced terminator either, also in
\* zero-terminated mode), buffer[0 .. L-1] is the decompressed string, and no
\* step changes the decoder table or the compressed string.
C10_Frame ==
    /\ []((Returned /\ WellFormed(strIn) /\ Len(orig) < size) =>
            /\ writes \subseteq 0 .. (Len(orig) - 1)
            /\ \A i \in Len(orig) .. (size - 1) : mem[i] = InitByte(i)
            /\ \A i \in 0 .. (Len(orig) - 1) : mem[i] = orig[i + 1])
    /\ [][decoder' = decoder /\ strIn' = strIn]_vars

C10_Witness ==
    /\ Returned /\ WellFormed(strIn) /\ HasSymbol /\ HasEscape
    /\ ZeroTerminatedMode /\ 0 < Len(orig) /\ Len(orig) < size
    /\ mem[size - 1] = InitByte(size - 1)

====
